---- MODULE Spec2Model ----
(***************************************************************************)
(* Room lifecycle and token issuance of the VoIP backend.                  *)
(*                                                                         *)
(* The repository holds three server entry points with the same four       *)
(* routes (POST /rooms, GET /rooms/:id, POST /rooms/:id/tokens,            *)
(* POST /rooms/:id/close):                                                 *)
(*   "part_000"  TypeScript server, Zod-validated create, jsonwebtoken     *)
(*   "part_001"  JavaScript server, Zod-validated create, LiveKit token    *)
(*   "part_002"  JavaScript server, unvalidated create, jsonwebtoken       *)
(* The variable server says which entry point is running.                  *)
(*                                                                         *)
(* Every handler is an async function: it runs synchronously up to its     *)
(* await on the Supabase query (the Start actions), the store executes     *)
(* the query at some later moment (DbExec, or DbFail when the store is     *)
(* unavailable), and the continuation after the await sends the response   *)
(* (the Respond actions).  Handlers of different requests interleave at    *)
(* the awaits.                                                             *)
(***************************************************************************)
EXTENDS Integers, Sequences, FiniteSets, TLC

VARIABLES server, env, rows, nextId, now, req, closedOk

vars == <<server, env, rows, nextId, now, req, closedOk>>

(***************************************************************************)
(* Bounds of the model.                                                    *)
(***************************************************************************)
\* concurrent request slots
NumSlots == 2
\* number of ids nanoid hands out before create is no longer offered
MaxRooms == 2
\* last clock value, in minutes
MaxTime == 20
\* minutes that pass in one Tick
TickMinutes == 5

Slots == 1..NumSlots
\* ids a client can put in the path; an id nanoid has not handed out yet is
\* the id of no room
PathIds == 1..MaxRooms
Servers == {"part_000", "part_001", "part_002"}

(***************************************************************************)
(* Program constants.                                                      *)
(***************************************************************************)
NameMin == 1
NameMax == 100
CapacityMin == 1
CapacityMax == 11
CapacityDefault == 11
DisplayNameMin == 1
DisplayNameMax == 50
\* expiresIn: '15m'
JwtExpiresInMinutes == 15
\* AccessToken is built without a ttl option: the SDK's default of 6 hours
LiveKitDefaultTtlMinutes == 360

Roles == {"host", "cohost", "participant"}

(***************************************************************************)
(* JSON values of a request body.  Every field is a record with a type     *)
(* tag t; "undef" is a missing key.                                        *)
(*   strings that are only measured are kept by their length (name),       *)
(*   numbers are fractions n/d so that 1.5 is a value,                     *)
(*   date strings and timezones are kept as text.                          *)
(***************************************************************************)
Undef == [t |-> "undef"]
StrLen(n) == [t |-> "str", len |-> n]
Num(n, d) == [t |-> "num", n |-> n, d |-> d]
Text(s) == [t |-> "str", s |-> s]
Bool(b) == [t |-> "bool", b |-> b]
Null == [t |-> "null"]
\* a string that spells the room id n
IdText(n) == [t |-> "str", id |-> n]

ValidDate == "2025-01-01T09:00:00Z"
ValidDateEnd == "2025-01-01T09:30:00Z"
\* a date without a time: new Date() parses it, z.string().datetime() rejects it
DateOnly == "2025-01-01"
Garbage == "not-a-date"

BaseBody ==
    [name |-> StrLen(7), capacity |-> Num(5, 1), startAt |-> Text(ValidDate),
     endAt |-> Text(ValidDateEnd), timezone |-> Text("UTC"), recurring |-> Bool(FALSE),
     id |-> Undef, state |-> Undef]

(***************************************************************************)
(* Zod schemas.                                                            *)
(***************************************************************************)
\* z.string().min(1).max(100)
NameOk(v) == v.t = "str" /\ v.len >= NameMin /\ v.len <= NameMax

\* z.number().min(1).max(11).default(11): undefined takes the default; any
\* number in the closed range passes (there is no .int())
CapacityOk(v) ==
    \/ v.t = "undef"
    \/ v.t = "num" /\ v.n >= CapacityMin * v.d /\ v.n <= CapacityMax * v.d

\* z.string().datetime(): ISO 8601 date-time in UTC
ZodDatetime(v) == v.t = "str" /\ v.s \in {ValidDate, ValidDateEnd}

\* z.string()
TimezoneOk(v) == v.t = "str"

\* z.boolean().default(false)
RecurringOk(v) == v.t \in {"undef", "bool"}

RoomSchemaOk(b) ==
    /\ NameOk(b.name)
    /\ CapacityOk(b.capacity)
    /\ ZodDatetime(b.startAt)
    /\ ZodDatetime(b.endAt)
    /\ TimezoneOk(b.timezone)
    /\ RecurringOk(b.recurring)

\* faulty variant: the schema lets unknown keys through (.passthrough()), so
\* a supplied id stays in the parsed value
RoomSchemaParse_Passthrough(b) ==
    [name |-> b.name,
     capacity |-> IF b.capacity.t = "undef" THEN Num(CapacityDefault, 1) ELSE b.capacity,
     startAt |-> b.startAt,
     endAt |-> b.endAt,
     timezone |-> b.timezone,
     recurring |-> IF b.recurring.t = "undef" THEN Bool(FALSE) ELSE b.recurring,
     id |-> b.id]

\* RoomSchema.parse on a valid body: defaults filled in, unknown keys (id,
\* state) stripped by z.object
RoomSchemaParse(b) ==
    [name |-> b.name,
     capacity |-> IF b.capacity.t = "undef" THEN Num(CapacityDefault, 1) ELSE b.capacity,
     startAt |-> b.startAt,
     endAt |-> b.endAt,
     timezone |-> b.timezone,
     recurring |-> IF b.recurring.t = "undef" THEN Bool(FALSE) ELSE b.recurring]

(***************************************************************************)
(* new Date(x).toISOString()                                               *)
(***************************************************************************)
DateParses(v) == v.t = "str" /\ v.s \in {ValidDate, ValidDateEnd, DateOnly}

ToISOString(v) ==
    CASE v.s = ValidDate -> Text("2025-01-01T09:00:00.000Z")
      [] v.s = ValidDateEnd -> Text("2025-01-01T09:30:00.000Z")
      [] v.s = DateOnly -> Text("2025-01-01T00:00:00.000Z")

\* x ?? null
OrNull(v) == IF v.t = "undef" THEN Null ELSE v

(***************************************************************************)
(* Token request bodies.  A displayName is a sequence of items as the HTML *)
(* tokenizer of sanitize-html sees them: a tag, or a piece of text (one    *)
(* character c, or a run of n characters "a").  w is the number of         *)
(* characters of the item, so RawLen is the string length that             *)
(* z.string().min(1).max(50) measures.                                     *)
(***************************************************************************)
Tag(name, closing) ==
    [k |-> IF closing THEN "close" ELSE "open", s |-> name,
     w |-> IF name = "script" THEN (IF closing THEN 9 ELSE 8)
           ELSE (IF closing THEN 4 ELSE 3)]
Ch(c) == [k |-> "text", s |-> c, w |-> 1]
Run(n) == [k |-> "text", s |-> "a", w |-> n]

Width(item) == item.w

RECURSIVE RawLen(_)
RawLen(s) == IF s = <<>> THEN 0 ELSE Width(Head(s)) + RawLen(Tail(s))

Pad(n) == IF n = 0 THEN <<>> ELSE <<Run(n)>>

\* z.enum(['host', 'cohost', 'participant'])
RoleOk(role) == role \in Roles

\* faulty variant: the upper limit is off by one
DisplayNameOk_OffByOne(name) ==
    RawLen(name) >= DisplayNameMin /\ RawLen(name) <= DisplayNameMax + 1

\* z.string().min(1).max(50)
DisplayNameOk(name) ==
    RawLen(name) >= DisplayNameMin /\ RawLen(name) <= DisplayNameMax

TokenSchemaOk(b) == RoleOk(b.role) /\ DisplayNameOk(b.displayName)

\* sanitizeHtml(s, { allowedTags: [], allowedAttributes: {} }): every tag is
\* dropped, the text between tags is kept, except inside script (a non-text
\* tag of sanitize-html), whose content is dropped up to its closing tag
RECURSIVE SanitizeFrom(_, _)
SanitizeFrom(s, inScript) ==
    IF s = <<>> THEN <<>>
    ELSE LET h == Head(s)
             rest == Tail(s)
         IN  CASE h.k = "open" /\ h.s = "script" -> SanitizeFrom(rest, TRUE)
               [] h.k = "close" /\ h.s = "script" -> SanitizeFrom(rest, FALSE)
               [] h.k = "text" /\ ~inScript -> <<h>> \o SanitizeFrom(rest, inScript)
               [] OTHER -> SanitizeFrom(rest, inScript)

sanitizeHtml(s) == SanitizeFrom(s, FALSE)

NameBob == <<Ch("B"), Ch("o"), Ch("b")>>
NameAnn == <<Ch("A"), Ch("n"), Ch("n")>>
\* "<script>x</script>Ann"
NameScriptAnn == <<Tag("script", FALSE), Ch("x"), Tag("script", TRUE)>> \o NameAnn
\* "<b>x</b>Ann"
NameBoldAnn == <<Tag("b", FALSE), Ch("x"), Tag("b", TRUE)>> \o NameAnn
\* "<b></b>"
NameTagOnly == <<Tag("b", FALSE), Tag("b", TRUE)>>

TokenBody(role, name) == [role |-> role, displayName |-> name]

(***************************************************************************)
(* Messages of the errors the handlers pass on as error.message.           *)
(***************************************************************************)
ZodMessage == "zod issues"
InvalidTimeMessage == "Invalid time value"
StoreMessage == "store unavailable"
NoSingleRowMessage == "JSON object requested, multiple (or no) rows returned"
LiveKitKeyMessage == "api-key and api-secret must be set"
LiveKitIdentityMessage == "identity is required for join but not set"

(***************************************************************************)
(* Tokens.                                                                 *)
(***************************************************************************)
NoToken ==
    [kind |-> "none", roomId |-> 0, role |-> "", identity |-> <<>>,
     iat |-> 0, exp |-> 0, key |-> ""]

\* jwt.sign({ roomId, role, identity }, process.env.JWT_SECRET || 'secret',
\*          { expiresIn: '15m' })
JwtSign(roomId, role, identity, secretSet, t) ==
    [kind |-> "jwt", roomId |-> roomId, role |-> role, identity |-> identity,
     iat |-> t, exp |-> t + JwtExpiresInMinutes,
     key |-> IF secretSet THEN "JWT_SECRET" ELSE "secret"]

\* new AccessToken(key, secret, { identity }); at.addGrant({ roomJoin, room });
\* at.toJwt(): the claim set carries no role, and no ttl is passed
LiveKitToken(roomId, role, identity, secretSet, t) ==
    [kind |-> "livekit", roomId |-> roomId, role |-> "", identity |-> identity,
     iat |-> t, exp |-> t + LiveKitDefaultTtlMinutes,
     key |-> "LIVEKIT_API_SECRET"]

\* what signing throws, "" when it returns a token.  The AccessToken
\* constructor throws when the key or the secret is unset, and toJwt throws
\* for a roomJoin grant without an identity; jwt.sign always has a secret
\* because of the || 'secret' fallback, and signs an empty identity
SignThrows(s, secretSet, identity) ==
    IF s # "part_001" THEN ""
    ELSE IF ~secretSet THEN LiveKitKeyMessage
    ELSE IF identity = <<>> THEN LiveKitIdentityMessage
    ELSE ""

SignToken(s, roomId, role, identity, secretSet, t) ==
    IF s = "part_001" THEN LiveKitToken(roomId, role, identity, secretSet, t)
    ELSE JwtSign(roomId, role, identity, secretSet, t)

(***************************************************************************)
(* The rooms table, queries and responses.                                 *)
(***************************************************************************)
NoRow == [id |-> 0, state |-> "none"]

\* the record POST /rooms hands to insert.  part_000 spreads the parsed value
\* between id and state ({ id, ...data, state }): a key id of data would
\* replace the generated id, a key state of data is replaced by 'scheduled'.
\* part_001 and part_002 name every field.
RoomRecord(s, id, b) ==
    IF s = "part_000"
    THEN LET data == RoomSchemaParse(b)
         IN  [id |-> IF "id" \in DOMAIN data /\ data.id.t # "undef" THEN data.id.id ELSE id,
              name |-> data.name, capacity |-> data.capacity,
              startAt |-> data.startAt, endAt |-> data.endAt,
              timezone |-> data.timezone, recurring |-> data.recurring,
              state |-> "scheduled"]
    ELSE LET data == IF s = "part_001" THEN RoomSchemaParse(b) ELSE b
         IN  [id |-> id, name |-> data.name, capacity |-> OrNull(data.capacity),
              startAt |-> ToISOString(data.startAt),
              endAt |-> ToISOString(data.endAt),
              timezone |-> data.timezone, recurring |-> OrNull(data.recurring),
              state |-> "scheduled"]

\* what the synchronous part of POST /rooms throws, "" when it reaches the insert
CreateThrows(s, b) ==
    IF s \in {"part_000", "part_001"}
    THEN IF RoomSchemaOk(b) THEN "" ELSE ZodMessage
    ELSE IF DateParses(b.startAt) /\ DateParses(b.endAt) THEN "" ELSE InvalidTimeMessage

Matching(table, id) == SelectSeq(table, LAMBDA row : row.id = id)

\* .single(): exactly one row, or an error
Single(found) ==
    IF Len(found) = 1 THEN [error |-> "", data |-> found[1]]
    ELSE [error |-> NoSingleRowMessage, data |-> NoRow]

\* .insert([record]).select().single()
DbInsert(table, record) == Append(table, record)

\* .select('*').eq('id', id).single()
DbSelect(table, id) == Single(Matching(table, id))

\* faulty variant: the update writes nothing
DbUpdate_NoWrite(table, id) == table

\* faulty variant: the update flips the state instead of setting it
DbUpdate_Toggle(table, id) ==
    [i \in 1..Len(table) |->
        IF table[i].id = id
        THEN [table[i] EXCEPT !.state = IF @ = "closed" THEN "scheduled" ELSE "closed"]
        ELSE table[i]]

\* faulty variant: the update inserts a closed room when no row matches
DbUpdate_Upsert(table, id) ==
    IF Len(Matching(table, id)) = 0
    THEN Append(table, [RoomRecord(server, id, BaseBody) EXCEPT !.state = "closed"])
    ELSE [i \in 1..Len(table) |->
            IF table[i].id = id THEN [table[i] EXCEPT !.state = "closed"] ELSE table[i]]

\* .update({ state: 'closed' }).eq('id', id)
DbUpdate(table, id) ==
    [i \in 1..Len(table) |->
        IF table[i].id = id THEN [table[i] EXCEPT !.state = "closed"] ELSE table[i]]

NoQuery == [kind |-> "none", id |-> 0, record |-> NoRow]

\* faulty variant: the read is written with the update of the close route
SelectQuery_Update(id) == [kind |-> "update", id |-> id, record |-> NoRow]

\* supabase.from('rooms').select('*').eq('id', id).single()
SelectQuery(id) == [kind |-> "select", id |-> id, record |-> NoRow]
NoResult == [error |-> "", data |-> NoRow]
NoBody == [role |-> "", displayName |-> <<>>]
NoResponse == [status |-> 0, error |-> "", room |-> NoRow, token |-> NoToken, url |-> FALSE]

Ok(room) == [status |-> 200, error |-> "", room |-> room, token |-> NoToken, url |-> FALSE]
Err(status, message) ==
    [status |-> status, error |-> message, room |-> NoRow, token |-> NoToken, url |-> FALSE]
TokenResponse(s, token) ==
    [status |-> 200, error |-> "", room |-> NoRow, token |-> token, url |-> s = "part_001"]

(***************************************************************************)
(* A request slot.  pc: "idle" (no request yet), "await" (query sent),      *)
(* "ready" (query answered, continuation not yet run), "done" (response    *)
(* sent; the slot keeps the finished request until the next one starts).   *)
(*   dbCalls     queries this request has sent                             *)
(*   responses   responses this request has sent                           *)
(*   afterClose  a close of this id had returned success when it started   *)
(*   atRead, atIssue  state of the room when the store handled the select  *)
(*                    or update of this request (answered or failed it),   *)
(*                    and when the response was sent                       *)
(***************************************************************************)
Idle ==
    [op |-> "none", pc |-> "idle", id |-> 0, body |-> BaseBody, tbody |-> NoBody,
     query |-> NoQuery, result |-> NoResult, resp |-> NoResponse,
     dbCalls |-> 0, responses |-> 0, afterClose |-> FALSE,
     atRead |-> "none", atIssue |-> "none"]

RoomState(table, id) ==
    LET found == Matching(table, id)
    IN  IF Len(found) = 0 THEN "missing" ELSE found[1].state

Init ==
    /\ server \in Servers
    /\ env \in [secretSet : BOOLEAN]
    /\ rows = <<>>
    /\ nextId = 1
    /\ now = 0
    /\ req = [r \in Slots |-> Idle]
    /\ closedOk = {}

\* a slot takes a new request when it has none or has answered the last one
Free(r) == req[r].pc \in {"idle", "done"}

\* faulty variant: the id is derived from the number of stored rooms
nanoid_RowCount == Len(rows) + 1

\* nanoid(10): a fresh id on every call
nanoid == nextId

(***************************************************************************)
(* POST /rooms                                                             *)
(***************************************************************************)
CreateStart(r, bodies) ==
    /\ Free(r)
    /\ \E b \in bodies :
        LET thrown == CreateThrows(server, b)
            started == [Idle EXCEPT !.op = "create", !.body = b]
        IN  IF thrown # ""
            THEN /\ req' = [req EXCEPT ![r] =
                        [started EXCEPT !.pc = "done", !.resp = Err(400, thrown),
                                        !.responses = 1]]
                 /\ UNCHANGED nextId
            ELSE /\ nextId <= MaxRooms
                 /\ req' = [req EXCEPT ![r] =
                        [started EXCEPT !.pc = "await", !.dbCalls = 1,
                            !.query = [kind |-> "insert", id |-> nanoid,
                                       record |-> RoomRecord(server, nanoid, b)]]]
                 /\ nextId' = nextId + 1
    /\ UNCHANGED <<server, env, rows, now, closedOk>>

CreateRespond(r) ==
    /\ req[r].pc = "ready"
    /\ req[r].op = "create"
    /\ req' = [req EXCEPT ![r].pc = "done", ![r].responses = @ + 1,
                          ![r].resp = IF req[r].result.error # ""
                                      THEN Err(400, req[r].result.error)
                                      ELSE Ok(req[r].result.data)]
    /\ UNCHANGED <<server, env, rows, nextId, now, closedOk>>

(***************************************************************************)
(* GET /rooms/:id                                                          *)
(***************************************************************************)
GetStart(r) ==
    /\ Free(r)
    /\ \E id \in PathIds :
        req' = [req EXCEPT ![r] =
                   [Idle EXCEPT !.op = "get", !.id = id, !.pc = "await", !.dbCalls = 1,
                                !.afterClose = id \in closedOk,
                                !.query = SelectQuery(id)]]
    /\ UNCHANGED <<server, env, rows, nextId, now, closedOk>>

\* faulty variant: a failed read is sent again
GetRespond_Retry(r) ==
    /\ req[r].pc = "ready"
    /\ req[r].op = "get"
    /\ IF req[r].result.error # ""
       THEN req' = [req EXCEPT ![r].pc = "await", ![r].dbCalls = @ + 1,
                               ![r].result = NoResult]
       ELSE req' = [req EXCEPT ![r].pc = "done", ![r].responses = @ + 1,
                               ![r].resp = Ok(req[r].result.data)]
    /\ UNCHANGED <<server, env, rows, nextId, now, closedOk>>

GetRespond(r) ==
    /\ req[r].pc = "ready"
    /\ req[r].op = "get"
    /\ req' = [req EXCEPT ![r].pc = "done", ![r].responses = @ + 1,
                          ![r].resp = IF req[r].result.error # ""
                                      THEN Err(404, "Room not found")
                                      ELSE Ok(req[r].result.data)]
    /\ UNCHANGED <<server, env, rows, nextId, now, closedOk>>

(***************************************************************************)
(* POST /rooms/:id/tokens                                                  *)
(***************************************************************************)
\* the catch block of the token route
TokenCatch(s, message) ==
    IF s = "part_001" THEN Err(400, message) ELSE Err(400, "Invalid token data")

TokenStart(r, bodies) ==
    /\ Free(r)
    /\ \E id \in PathIds, b \in bodies :
        LET started == [Idle EXCEPT !.op = "token", !.id = id, !.tbody = b,
                                    !.afterClose = id \in closedOk]
        IN  IF ~TokenSchemaOk(b)
            THEN req' = [req EXCEPT ![r] =
                        [started EXCEPT !.pc = "done", !.responses = 1,
                                        !.resp = TokenCatch(server, ZodMessage)]]
            ELSE req' = [req EXCEPT ![r] =
                        [started EXCEPT !.pc = "await", !.dbCalls = 1,
                            !.query = SelectQuery(id)]]
    /\ UNCHANGED <<server, env, rows, nextId, now, closedOk>>

\* faulty variant: the closed check is missing
RoomUnavailable_ErrorOnly(result) == result.error # ""

\* faulty variant: the error check is missing
RoomUnavailable_ClosedOnly(result) == result.data.state = "closed"

\* if (error || !room || room.state === 'closed')
RoomUnavailable(result) == result.error # "" \/ result.data.state = "closed"

TokenRespond(r) ==
    /\ req[r].pc = "ready"
    /\ req[r].op = "token"
    /\ LET sanitizedName == sanitizeHtml(req[r].tbody.displayName)
           resp ==
               IF RoomUnavailable(req[r].result)
               THEN Err(400, "Room not available")
               ELSE IF SignThrows(server, env.secretSet, sanitizedName) # ""
               THEN TokenCatch(server, SignThrows(server, env.secretSet, sanitizedName))
               ELSE TokenResponse(server,
                        SignToken(server, req[r].id, req[r].tbody.role, sanitizedName,
                                  env.secretSet, now))
       IN  req' = [req EXCEPT ![r].pc = "done", ![r].responses = @ + 1,
                              ![r].resp = resp,
                              ![r].atIssue = RoomState(rows, req[r].id)]
    /\ UNCHANGED <<server, env, rows, nextId, now, closedOk>>

(***************************************************************************)
(* POST /rooms/:id/close                                                   *)
(***************************************************************************)
CloseStart(r) ==
    /\ Free(r)
    /\ \E id \in PathIds :
        req' = [req EXCEPT ![r] =
                   [Idle EXCEPT !.op = "close", !.id = id, !.pc = "await", !.dbCalls = 1,
                                !.afterClose = id \in closedOk,
                                !.query = [kind |-> "update", id |-> id, record |-> NoRow]]]
    /\ UNCHANGED <<server, env, rows, nextId, now, closedOk>>

CloseRespond(r) ==
    /\ req[r].pc = "ready"
    /\ req[r].op = "close"
    /\ IF req[r].result.error # ""
       THEN /\ req' = [req EXCEPT ![r].pc = "done", ![r].responses = @ + 1,
                                  ![r].resp = Err(400, req[r].result.error)]
            /\ UNCHANGED closedOk
       ELSE /\ req' = [req EXCEPT ![r].pc = "done", ![r].responses = @ + 1,
                                  ![r].resp = Ok(req[r].result.data)]
            /\ closedOk' = closedOk \cup {req[r].id}
    /\ UNCHANGED <<server, env, rows, nextId, now>>

(***************************************************************************)
(* The store executes a pending query, atomically, or fails it.            *)
(***************************************************************************)
DbExecInsert(r) ==
    /\ req[r].pc = "await"
    /\ req[r].query.kind = "insert"
    /\ rows' = DbInsert(rows, req[r].query.record)
    /\ req' = [req EXCEPT ![r].pc = "ready",
                          ![r].result = Single(<<req[r].query.record>>)]
    /\ UNCHANGED <<server, env, nextId, now, closedOk>>

DbExecSelect(r) ==
    /\ req[r].pc = "await"
    /\ req[r].query.kind = "select"
    /\ req' = [req EXCEPT ![r].pc = "ready",
                          ![r].result = DbSelect(rows, req[r].query.id),
                          ![r].atRead = RoomState(rows, req[r].query.id)]
    /\ UNCHANGED <<server, env, rows, nextId, now, closedOk>>

DbExecUpdate(r) ==
    /\ req[r].pc = "await"
    /\ req[r].query.kind = "update"
    /\ rows' = DbUpdate(rows, req[r].query.id)
    /\ req' = [req EXCEPT ![r].pc = "ready",
                          ![r].result = Single(Matching(rows', req[r].query.id)),
                          ![r].atRead = RoomState(rows, req[r].query.id)]
    /\ UNCHANGED <<server, env, nextId, now, closedOk>>

\* the store is unavailable: the query has no effect and returns an error
DbFail(r) ==
    /\ req[r].pc = "await"
    /\ req' = [req EXCEPT ![r].pc = "ready",
                          ![r].result = [error |-> StoreMessage, data |-> NoRow],
                          ![r].atRead = IF req[r].query.kind = "insert" THEN @
                                        ELSE RoomState(rows, req[r].query.id)]
    /\ UNCHANGED <<server, env, rows, nextId, now, closedOk>>

Tick ==
    /\ now + TickMinutes <= MaxTime
    /\ now' = now + TickMinutes
    /\ UNCHANGED <<server, env, rows, nextId, req, closedOk>>

(***************************************************************************)
(* Inputs.                                                                 *)
(***************************************************************************)
CoreBodies == {BaseBody}

CoreTokenBodies == {TokenBody("host", NameScriptAnn)}

\* the base body with one field changed
AllBodies ==
    {BaseBody}
    \cup {[BaseBody EXCEPT !.name = v] :
            v \in {Undef, StrLen(0), StrLen(1), StrLen(100), StrLen(101)}}
    \cup {[BaseBody EXCEPT !.capacity = v] :
            v \in {Undef, Num(0, 1), Num(1, 1), Num(11, 1), Num(12, 1), Num(3, 2),
                   Text("5")}}
    \cup {[BaseBody EXCEPT !.startAt = v] : v \in {Undef, Text(DateOnly), Text(Garbage)}}
    \cup {[BaseBody EXCEPT !.endAt = v] : v \in {Undef, Text(DateOnly), Text(Garbage)}}
    \cup {[BaseBody EXCEPT !.timezone = v] : v \in {Undef}}
    \cup {[BaseBody EXCEPT !.recurring = v] : v \in {Undef, Bool(TRUE), Text("yes")}}
    \cup {[BaseBody EXCEPT !.id = IdText(0), !.state = Text("closed")]}

AllNames ==
    {<<>>, NameBob, NameAnn, NameScriptAnn, NameBoldAnn, NameTagOnly,
     Pad(1), Pad(DisplayNameMax), Pad(DisplayNameMax + 1),
     <<Tag("b", FALSE)>> \o Pad(DisplayNameMax - 2)}

AllTokenBodies ==
    {TokenBody(role, name) : role \in Roles, name \in AllNames}
    \cup {TokenBody(role, NameBob) : role \in {"admin", ""}}

(***************************************************************************)
(* Spec        concurrent requests in every slot, the core inputs          *)
(* SpecCreate  one request at a time: create with every body, and get      *)
(* SpecToken   one request at a time: token requests with every body       *)
(* SpecClock   one request at a time, the core inputs, and the clock       *)
(***************************************************************************)
Next ==
    \E r \in Slots :
        \/ CreateStart(r, CoreBodies)
        \/ CreateRespond(r)
        \/ GetStart(r)
        \/ GetRespond(r)
        \/ TokenStart(r, CoreTokenBodies)
        \/ TokenRespond(r)
        \/ CloseStart(r)
        \/ CloseRespond(r)
        \/ DbExecInsert(r)
        \/ DbExecSelect(r)
        \/ DbExecUpdate(r)
        \/ DbFail(r)

Spec == Init /\ [][Next]_vars

NextCreate ==
    \/ CreateStart(1, AllBodies)
    \/ CreateRespond(1)
    \/ GetStart(1)
    \/ GetRespond(1)
    \/ DbExecInsert(1)
    \/ DbExecSelect(1)
    \/ DbFail(1)

SpecCreate == Init /\ [][NextCreate]_vars

NextToken ==
    \/ CreateStart(1, {BaseBody})
    \/ CreateRespond(1)
    \/ TokenStart(1, AllTokenBodies)
    \/ TokenRespond(1)
    \/ CloseStart(1)
    \/ CloseRespond(1)
    \/ DbExecInsert(1)
    \/ DbExecSelect(1)
    \/ DbExecUpdate(1)
    \/ DbFail(1)

SpecToken == Init /\ [][NextToken]_vars

NextClock ==
    \/ CreateStart(1, {BaseBody})
    \/ CreateRespond(1)
    \/ TokenStart(1, CoreTokenBodies)
    \/ TokenRespond(1)
    \/ CloseStart(1)
    \/ CloseRespond(1)
    \/ DbExecInsert(1)
    \/ DbExecSelect(1)
    \/ DbExecUpdate(1)
    \/ DbFail(1)
    \/ Tick

SpecClock == Init /\ [][NextClock]_vars

\* create bodies for SpecStore: a valid one, one the schema rejects, and one
\* that carries an id and a state of its own
StoreBodies ==
    {BaseBody,
     [BaseBody EXCEPT !.name = StrLen(0)],
     [BaseBody EXCEPT !.id = IdText(0), !.state = Text("closed")]}

\* token bodies for SpecStore: a valid one and one the schema rejects
StoreTokenBodies == {TokenBody("host", NameScriptAnn), TokenBody("admin", NameBob)}

\* SpecStore: one request at a time, every route, against the store
NextStore ==
    \/ CreateStart(1, StoreBodies)
    \/ CreateRespond(1)
    \/ GetStart(1)
    \/ GetRespond(1)
    \/ TokenStart(1, StoreTokenBodies)
    \/ TokenRespond(1)
    \/ CloseStart(1)
    \/ CloseRespond(1)
    \/ DbExecInsert(1)
    \/ DbExecSelect(1)
    \/ DbExecUpdate(1)
    \/ DbFail(1)

SpecStore == Init /\ [][NextStore]_vars

\* the store completes or fails the pending query of slot r
StoreAnswers(r) ==
    DbExecInsert(r) \/ DbExecSelect(r) \/ DbExecUpdate(r) \/ DbFail(r)

\* the route handler of slot r resumes after its await
Resumes(r) ==
    CreateRespond(r) \/ GetRespond(r) \/ TokenRespond(r) \/ CloseRespond(r)

\* SpecLive: SpecStore with every query eventually completed or failed by the
\* store, and every handler resumed by the event loop once its query is
\* answered
SpecLive ==
    /\ Init
    /\ [][NextStore]_vars
    /\ WF_vars(StoreAnswers(1))
    /\ WF_vars(Resumes(1))

(***************************************************************************)
(* Properties.                                                             *)
(***************************************************************************)
Done(r) == req[r].pc = "done"
Answered(r, op) == Done(r) /\ req[r].op = op
Issued(r) == Answered(r, "token") /\ req[r].resp.token # NoToken

\* a token body as the specification wants it: an enumerated role and a
\* displayName of 1 to 50 characters
WellFormedTokenBody(b) ==
    /\ b.role \in {"host", "cohost", "participant"}
    /\ RawLen(b.displayName) >= 1
    /\ RawLen(b.displayName) <= 50

\* C1: once a close of an id has returned success, a get of that id that
\* starts afterwards answers with the record in state closed whenever the
\* store answers its read, and a token request for that id that starts
\* afterwards never returns a token: a well-formed one is answered
\* "Room not available".
C1_ClosedStaysUnavailable ==
    \A r \in Slots :
        (Done(r) /\ req[r].afterClose) =>
            /\ req[r].op = "get" =>
                /\ req[r].resp.status = 200 =>
                      /\ req[r].resp.room.id = req[r].id
                      /\ req[r].resp.room.state = "closed"
                /\ req[r].result.error # StoreMessage => req[r].resp.status = 200
            /\ req[r].op = "token" =>
                /\ req[r].resp.token = NoToken
                /\ WellFormedTokenBody(req[r].tbody) =>
                      req[r].resp = Err(400, "Room not available")

C1_Witness ==
    \E r1, r2 \in Slots :
        /\ Answered(r1, "get") /\ req[r1].afterClose /\ req[r1].resp.status = 200
        /\ Answered(r2, "token") /\ req[r2].afterClose
        /\ WellFormedTokenBody(req[r2].tbody)
        /\ req[r2].id = req[r1].id

\* C2 (as claimed): whenever a token is returned, the room exists and is
\* not closed at the moment the token is signed and returned.
C2_OpenAtIssuance ==
    \A r \in Slots : Issued(r) => req[r].atIssue = "scheduled"

\* C2 (amended): whenever a token is returned, the room existed and was not
\* closed at the moment the store answered the handler's room read.
C2_OpenAtRead ==
    \A r \in Slots : Issued(r) => req[r].atRead = "scheduled"

\* a token returned for a room that a concurrent close had closed in between
C2_Witness ==
    \E r \in Slots :
        Issued(r) /\ req[r].atRead = "scheduled" /\ req[r].atIssue = "closed"

\* C3: no step changes an existing record other than by setting its state
\* to closed; a closed record stays closed, and no record disappears.
C3_StateMonotonic ==
    [][/\ Len(rows') >= Len(rows)
       /\ \A i \in 1..Len(rows) :
            /\ rows'[i] \in {rows[i], [rows[i] EXCEPT !.state = "closed"]}
            /\ rows[i].state = "closed" => rows'[i].state = "closed"]_vars

\* a second close of a closed room has been answered, with a create served
\* in the other slot
C3_Witness ==
    \E r1, r2 \in Slots :
        /\ Answered(r1, "close") /\ req[r1].afterClose /\ req[r1].resp.status = 200
        /\ Answered(r2, "create") /\ req[r2].resp.status = 200
        /\ RoomState(rows, req[r1].id) = "closed"

\* C4: a create that succeeds returns a record that is in the table, in
\* state scheduled as returned, under an id no other create was given; the
\* table never holds two records with one id.
C4_UniqueScheduled ==
    /\ \A i, j \in 1..Len(rows) : rows[i].id = rows[j].id => i = j
    /\ \A r \in Slots :
        (Answered(r, "create") /\ req[r].resp.status = 200) =>
            /\ req[r].resp.room.state = "scheduled"
            /\ Len(Matching(rows, req[r].resp.room.id)) = 1
    /\ \A r1, r2 \in Slots :
        (/\ r1 # r2
         /\ Answered(r1, "create") /\ req[r1].resp.status = 200
         /\ Answered(r2, "create") /\ req[r2].resp.status = 200)
            => req[r1].resp.room.id # req[r2].resp.room.id

\* two creates that ran concurrently have both succeeded
C4_Witness ==
    /\ Len(rows) = 2
    /\ \A r \in Slots : Answered(r, "create") /\ req[r].resp.status = 200

\* C5: a well-formed token request whose read found no room and one whose
\* read found a closed room get the same response, status 400 with
\* "Room not available".
C5_MissingLikeClosed ==
    \A r \in Slots :
        (/\ Answered(r, "token")
         /\ WellFormedTokenBody(req[r].tbody)
         /\ req[r].atRead \in {"missing", "closed"})
            => req[r].resp = Err(400, "Room not available")

\* both cases side by side, for the same body
C5_Witness ==
    \E r1, r2 \in Slots :
        /\ Answered(r1, "token") /\ req[r1].atRead = "missing"
        /\ Answered(r2, "token") /\ req[r2].atRead = "closed"
        /\ req[r1].tbody = req[r2].tbody
        /\ WellFormedTokenBody(req[r1].tbody)
        /\ req[r1].resp = req[r2].resp

\* C6: a token request with a role outside the enumeration, an empty
\* displayName or one of more than 50 characters is answered with the
\* validation failure, without a query to the store, whatever the state of
\* the room.
C6_InvalidTokenBodyNoLookup ==
    \A r \in Slots :
        (req[r].op = "token" /\ ~WellFormedTokenBody(req[r].tbody)) =>
            /\ Done(r)
            /\ req[r].dbCalls = 0
            /\ req[r].resp.status = 400
            /\ req[r].resp.token = NoToken
            /\ req[r].resp.error =
                  IF server = "part_001" THEN ZodMessage ELSE "Invalid token data"

\* a displayName of 51 characters rejected for a closed room
C6_Witness ==
    \E r \in Slots :
        /\ Answered(r, "token")
        /\ RawLen(req[r].tbody.displayName) = 51
        /\ req[r].tbody.role \in {"host", "cohost", "participant"}
        /\ RoomState(rows, req[r].id) = "closed"

\* a create body that breaks a field constraint of the specification
BreaksRoomConstraint(b) ==
    \/ b.name.t # "str" \/ b.name.len < 1 \/ b.name.len > 100
    \/ b.capacity.t \notin {"undef", "num"}
    \/ b.capacity.t = "num" /\ (b.capacity.n < b.capacity.d \/ b.capacity.n > 11 * b.capacity.d)
    \/ b.startAt.t # "str" \/ b.startAt.s \notin {ValidDate, ValidDateEnd}
    \/ b.endAt.t # "str" \/ b.endAt.s \notin {ValidDate, ValidDateEnd}
    \/ b.timezone.t # "str"

\* C7: a create whose body breaks a field constraint is answered with the
\* validation failure and sends no insert to the store.
C7_InvalidCreateNoInsert ==
    \A r \in Slots :
        (req[r].op = "create" /\ BreaksRoomConstraint(req[r].body)) =>
            /\ Done(r)
            /\ req[r].dbCalls = 0
            /\ req[r].resp.status = 400

\* C8: with the other fields valid, create lets the body through to the
\* insert exactly when capacity is omitted or an integer in 1..11, and an
\* omitted capacity is persisted as 11.
C8_CapacityRange ==
    \A r \in Slots :
        (req[r].op = "create" /\ [req[r].body EXCEPT !.capacity = BaseBody.capacity] = BaseBody) =>
            LET c == req[r].body.capacity
                wanted == \/ c.t = "undef"
                          \/ c.t = "num" /\ c.d = 1 /\ c.n >= 1 /\ c.n <= 11
            IN  /\ (req[r].dbCalls = 1) <=> wanted
                /\ (Done(r) /\ req[r].resp.status = 200 /\ c.t = "undef") =>
                      req[r].resp.room.capacity = Num(11, 1)

\* C9: a returned token carries the requested room id, the requested role
\* and the displayName with its tags stripped; "<script>x</script>Ann" as
\* host gives identity "Ann" and role "host".
C9_TokenClaims ==
    \A r \in Slots :
        Issued(r) =>
            /\ req[r].resp.token.roomId = req[r].id
            /\ req[r].resp.token.role = req[r].tbody.role
            /\ req[r].resp.token.identity = sanitizeHtml(req[r].tbody.displayName)
            /\ req[r].tbody.displayName = NameScriptAnn =>
                  req[r].resp.token.identity = NameAnn

\* C10: a returned token expires 15 minutes after it was signed, whatever
\* happens to its room afterwards.
C10_FifteenMinuteExpiry ==
    \A r \in Slots :
        Issued(r) =>
            /\ req[r].resp.token.iat <= now
            /\ req[r].resp.token.exp = req[r].resp.token.iat + 15

\* C11 (as claimed): a get answers with the stored record of the requested
\* id when there is one and with 404 "Room not found" when there is none,
\* and a read of an existing room that the store failed is not answered
\* "Room not found".
C11_GetFoundOrNotFound ==
    \A r \in Slots :
        Answered(r, "get") =>
            /\ (req[r].atRead # "missing" /\ req[r].result.error = "") =>
                  /\ req[r].resp.status = 200
                  /\ req[r].resp.room.id = req[r].id
                  /\ req[r].resp.room \in {rows[i] : i \in 1..Len(rows)}
            /\ (req[r].atRead = "missing" /\ req[r].result.error # StoreMessage) =>
                  req[r].resp = Err(404, "Room not found")
            /\ req[r].atRead # "missing" => req[r].resp # Err(404, "Room not found")

\* a step of the request in slot r
StepOf(r) == req'[r] # req[r]

\* C12: a create or close call that returns an error leaves the table as it
\* was: no step of such a call, from the sending of its query to its error
\* response, changes the rows; and a close of an id with no row is answered
\* with an error.
C12_FailedCallLeavesRows ==
    /\ [][\A r \in Slots :
            (/\ StepOf(r)
             /\ req'[r].op \in {"create", "close"}
             /\ \/ req'[r].pc = "await"
                \/ req'[r].result.error # ""
                \/ (req'[r].pc = "done" /\ req'[r].resp.status # 200))
            => rows' = rows]_vars
    /\ [](\A r \in Slots :
            (Answered(r, "close") /\ req[r].atRead = "missing") =>
                /\ req[r].resp.status = 400
                /\ req[r].resp.error # ""
                /\ RoomState(rows, req[r].id) = "missing")

\* a close of a missing id was answered with an error, and the table holds a room
C12_Witness ==
    \E r \in Slots :
        /\ Answered(r, "close")
        /\ req[r].atRead = "missing"
        /\ req[r].resp.status = 400
        /\ Len(rows) > 0

\* the messages the routes write themselves; every other message of an error
\* response is the error.message of whatever was thrown or returned
HandlerMessages == {"Room not found", "Room not available", "Invalid token data"}

\* what an error response lets its reader tell apart: the status, and the
\* message when the route wrote it itself
ErrorKind(resp) ==
    [status |-> resp.status,
     label |-> IF resp.error \in HandlerMessages THEN resp.error ELSE "error.message"]

\* C13 (as claimed): a create with a valid body that the store fails is
\* answered with an error whose kind differs from the kind of the answer to
\* an invalid body.
C13_StoreFailureDistinct ==
    \A r \in Slots :
        (/\ Answered(r, "create")
         /\ CreateThrows(server, req[r].body) = ""
         /\ req[r].result.error # "") =>
            /\ req[r].resp.status # 200
            /\ \A m \in {ZodMessage, InvalidTimeMessage} :
                   ErrorKind(req[r].resp) # ErrorKind(Err(400, m))

\* the kinds of the answers to a malformed token body and to an unavailable room
ValidationKind == ErrorKind(TokenCatch(server, ZodMessage))
UnavailableKind == ErrorKind(Err(400, "Room not available"))

\* C14 (as claimed): a token request fails with one of three pairwise
\* distinct kinds: a malformed body with the validation kind, a missing or
\* closed room with the unavailable kind, and a failure while signing with a
\* kind that is neither of the two.
C14_ThreeErrorKinds ==
    \A r \in Slots :
        Answered(r, "token") =>
            /\ ValidationKind # UnavailableKind
            /\ ~WellFormedTokenBody(req[r].tbody) =>
                   ErrorKind(req[r].resp) = ValidationKind
            /\ (WellFormedTokenBody(req[r].tbody) /\ req[r].atRead \in {"missing", "closed"}) =>
                   ErrorKind(req[r].resp) = UnavailableKind
            /\ (/\ WellFormedTokenBody(req[r].tbody)
                /\ req[r].atRead = "scheduled"
                /\ req[r].result.error = ""
                /\ req[r].resp.token = NoToken) =>
                   ErrorKind(req[r].resp) \notin {ValidationKind, UnavailableKind}

\* C15 (as claimed): with the signing secret missing, a well-formed token
\* request for a scheduled room fails and returns no token, and every token
\* issued is signed with the secret of the server's configuration.
C15_NoTokenWithoutSecret ==
    \A r \in Slots :
        /\ (/\ Answered(r, "token")
            /\ WellFormedTokenBody(req[r].tbody)
            /\ req[r].atRead = "scheduled"
            /\ req[r].result.error = ""
            /\ ~env.secretSet) =>
               /\ req[r].resp.status # 200
               /\ req[r].resp.token = NoToken
        /\ Issued(r) =>
               /\ env.secretSet
               /\ req[r].resp.token.key \in {"JWT_SECRET", "LIVEKIT_API_SECRET"}

\* C16: a close of a room that is already closed succeeds whenever the store
\* answers: it returns the stored record of that id in state closed, and its
\* update leaves the table exactly as the first close left it.
C16_CloseIdempotent ==
    /\ [](\A r \in Slots :
            (/\ Answered(r, "close")
             /\ req[r].atRead = "closed"
             /\ req[r].result.error # StoreMessage) =>
                /\ req[r].resp.status = 200
                /\ req[r].resp.room.id = req[r].id
                /\ req[r].resp.room.state = "closed"
                /\ req[r].resp.room \in {rows[i] : i \in 1..Len(rows)})
    /\ [][\A r \in Slots :
            (/\ StepOf(r)
             /\ req[r].op = "close"
             /\ RoomState(rows, req[r].id) = "closed") => rows' = rows]_vars

\* a second close of a closed room was answered with the closed record
C16_Witness ==
    \E r \in Slots :
        /\ Answered(r, "close")
        /\ req[r].atRead = "closed"
        /\ req[r].resp.status = 200
        /\ req[r].resp.room.state = "closed"
        /\ req[r].id \in closedOk

\* C17 (as claimed): the length of the displayName is decided on the raw
\* string: a well-formed body reaches the room read whatever its sanitized
\* form is, a displayName of more than 50 characters is rejected before the
\* read whatever its sanitized form is, and with the signing configuration
\* present no accepted request for a scheduled room is answered with the kind
\* of a validation failure.
C17_ValidateThenSanitize ==
    \A r \in Slots :
        Answered(r, "token") =>
            /\ WellFormedTokenBody(req[r].tbody) => req[r].dbCalls = 1
            /\ RawLen(req[r].tbody.displayName) > 50 =>
                   /\ req[r].dbCalls = 0
                   /\ req[r].resp = TokenCatch(server, ZodMessage)
            /\ (/\ WellFormedTokenBody(req[r].tbody)
                /\ req[r].atRead = "scheduled"
                /\ req[r].result.error = ""
                /\ env.secretSet) =>
                   ErrorKind(req[r].resp) # ValidationKind

\* C18: a get or token request has no effect on the table: it sends at most
\* one query, that query is a select, a token request with a malformed body
\* sends none, and no step of such a request, however it ends, changes the
\* rows.
C18_ReadsOnly ==
    /\ [](\A r \in Slots :
            req[r].op \in {"get", "token"} =>
                /\ req[r].dbCalls <= 1
                /\ req[r].query.kind \in {"none", "select"}
                /\ (req[r].op = "token" /\ ~WellFormedTokenBody(req[r].tbody)) =>
                       req[r].dbCalls = 0)
    /\ [][\A r \in Slots :
            (StepOf(r) /\ req'[r].op \in {"get", "token"}) => rows' = rows]_vars

\* a token was issued after one read of a stored room
C18_Witness ==
    \E r \in Slots :
        /\ Issued(r)
        /\ req[r].dbCalls = 1
        /\ req[r].query.kind = "select"
        /\ RoomState(rows, req[r].id) = "scheduled"

\* the ids the server has generated so far
Generated == 1..(nextId - 1)

\* C19: whatever the create body carries, an id or a state of its own
\* included, the record handed to the store and the record stored have the
\* id generated for that call and the state scheduled at insertion; stored
\* ids are generated ids, and no step changes the id of a stored record.
C19_SystemAssignedId ==
    /\ [](\A r \in Slots :
            (req[r].op = "create" /\ req[r].query.kind = "insert") =>
                /\ req[r].query.id \in Generated
                /\ req[r].query.record.id = req[r].query.id
                /\ req[r].query.record.state = "scheduled"
                /\ (Answered(r, "create") /\ req[r].resp.status = 200) =>
                       /\ req[r].resp.room.id = req[r].query.id
                       /\ req[r].resp.room.state = "scheduled")
    /\ [](\A i \in 1..Len(rows) : rows[i].id \in Generated)
    /\ [][/\ Len(rows') >= Len(rows)
          /\ \A i \in 1..Len(rows) : rows'[i].id = rows[i].id
          /\ \A i \in (Len(rows) + 1)..Len(rows') : rows'[i].state = "scheduled"]_vars

\* a body that carries its own id and state was stored under a generated id
C19_Witness ==
    \E r \in Slots :
        /\ Answered(r, "create")
        /\ req[r].body.id # Undef
        /\ req[r].body.state = Text("closed")
        /\ req[r].resp.status = 200
        /\ req[r].resp.room.id \in Generated
        /\ req[r].resp.room \in {rows[i] : i \in 1..Len(rows)}

\* C20: with every query eventually completed or failed, every request that
\* waits for the store is eventually answered; a request sends one response,
\* exactly when it is done, and at most one query; and a request whose query
\* came back with an error sends its response next, without another query.
C20_OneResponseNoRetry ==
    /\ [](\A r \in Slots :
            /\ req[r].responses <= 1
            /\ req[r].dbCalls <= 1
            /\ Done(r) <=> req[r].responses = 1)
    /\ [][\A r \in Slots :
            (StepOf(r) /\ req[r].pc = "ready" /\ req[r].result.error # "") =>
                /\ req'[r].pc = "done"
                /\ req'[r].responses = 1
                /\ req'[r].resp.status # 200
                /\ req'[r].dbCalls = req[r].dbCalls]_vars
    /\ \A r \in Slots : (req[r].pc \in {"await", "ready"}) ~> Done(r)

\* a read the store failed was answered once, after one query
C20_Witness ==
    \E r \in Slots :
        /\ Answered(r, "get")
        /\ req[r].result.error = StoreMessage
        /\ req[r].responses = 1
        /\ req[r].dbCalls = 1
        /\ req[r].resp.status # 200

====
